---- MODULE Spec2Model ----
(***************************************************************************)
(* State machine of the libde265dec element                               *)
(* (src/ext/libde265/libde265-dec.c): the fields of GstLibde265Dec, the   *)
(* input adapter, the decoder context's picture and warning queues, and   *)
(* one action per handler (start, stop, flush, parse with the             *)
(* handle_frame it triggers through have_frame, set_property).            *)
(*                                                                         *)
(* The decoder engine (libde265) and the GstVideoDecoder base class are    *)
(* outside the repository: their answers (result codes, new pictures, new  *)
(* warnings, negotiation / allocation / mapping results) are inputs drawn  *)
(* with \E at the call sites.                                              *)
(***************************************************************************)
EXTENDS Integers, Sequences, FiniteSets, TLC

\* ------------------------------------------------------------------ bounds
\* pictures the engine produces between two start() calls
MaxPictures == 3
\* warnings the engine can hold queued
MaxWarnings == 1
\* bytes the input adapter can hold
MaxAdapter == 5

\* records in one buffer handed to the reframer
MaxRecords == 2
\* payload bytes of one record
MaxPayload == 2
\* bytes left over after the last record of a buffer
MaxLeftover == 3

\* padding bytes per row of a decoded plane (stride - width)
MaxPad == 1

\* ------------------------------------------------------- program constants
GST_TYPE_LIBDE265_DEC_PACKETIZED == "packetized"
GST_TYPE_LIBDE265_DEC_RAW == "raw"
DEFAULT_MODE == GST_TYPE_LIBDE265_DEC_PACKETIZED

NULL == "NULL"

\* decoder result codes (de265_error)
DE265_OK == "DE265_OK"
DE265_ERROR_IMAGE_BUFFER_FULL == "DE265_ERROR_IMAGE_BUFFER_FULL"
DE265_ERROR_WAITING_FOR_INPUT_DATA == "DE265_ERROR_WAITING_FOR_INPUT_DATA"
\* two of the other codes: the default branch of the switch
DE265_ERROR_OUT_OF_MEMORY == "DE265_ERROR_OUT_OF_MEMORY"
DE265_ERROR_CHECKSUM_MISMATCH == "DE265_ERROR_CHECKSUM_MISMATCH"
FatalCodes == { DE265_ERROR_OUT_OF_MEMORY, DE265_ERROR_CHECKSUM_MISMATCH }

\* flow returns
GST_FLOW_OK == "GST_FLOW_OK"
GST_FLOW_ERROR == "GST_FLOW_ERROR"
GST_FLOW_NOT_NEGOTIATED == "GST_FLOW_NOT_NEGOTIATED"
GST_VIDEO_DECODER_FLOW_NEED_DATA == "GST_VIDEO_DECODER_FLOW_NEED_DATA"
\* the thread count used when the number of CPU cores is not known
DEFAULT_THREAD_COUNT == 2

\* the call never returned (the process died in undefined behaviour)
NO_RETURN == "NO_RETURN"

\* ------------------------------------------------------------ input sets
\* picture geometries (width, height) the engine may report
Dims == { <<2, 2>>, <<2, 4>> }

\* chunks upstream may push into the adapter
Chunks ==
  { <<0, 0, 0, 1, 7>>,              \* one record, L = 1
    <<0, 0, 0, 2, 7>>,              \* L = 2 with 1 payload byte: overrun
    <<255, 255, 255, 252, 7>> }     \* L = 0xFFFFFFFC with 1 payload byte

\* what sysconf (_SC_NPROCESSORS_ONLN) may return: -1 on error, 0, a count
HostParallelism == { -1, 0, 3 }

\* what handle_frame's output allocation and mapping can do
OutResults == { "ok", "alloc_fail", "map_fail" }

\* what gst_video_decoder_finish_frame can return
FlowRets == { GST_FLOW_OK, GST_FLOW_ERROR }

\* ------------------------------------------------------------- variables
VARIABLES
  ctx,          \* dec->ctx: NULL or "ctx"
  width,        \* dec->width
  height,       \* dec->height
  buffer_full,  \* dec->buffer_full
  mode,         \* dec->mode
  adapter,      \* bytes available in the input adapter
  queue,        \* engine: decoded pictures not yet pulled (ids, oldest first)
  warnings,     \* engine: queued warnings
  produced,     \* history: geometry of every picture the engine produced
  emitted,      \* history: ids of the frames handed to finish_frame
  requests,     \* history: renegotiation requests
  last,         \* the most recent call: op, events, bytes taken / fed, return
  outFail,      \* history: a handle_frame failed to get or map its output buffer
  errSeen,      \* history: kind of the latest error a parse call returned ("" when none)
  out_state,    \* base class: geometry of the latest set_output_state (none after start / stop)
  eos,          \* upstream has signalled end of stream
  bl,           \* history: the current backlog episode
  crashed,      \* the process died in undefined behaviour
  image,        \* engine: planes of the picture handle_frame pulled (NoImage: not followed)
  output_buffer, \* bytes handle_frame wrote to the mapped output buffer
  threads       \* engine: worker threads of the context (0: none started)

\* The histories cover the current segment of the stream: they start empty at
\* start, stop and flush, which all discard the engine's pictures.

vars == << ctx, width, height, buffer_full, mode, adapter, queue, warnings,
           produced, emitted, requests, last, outFail, errSeen, out_state,
           eos, bl, crashed, image, output_buffer, threads >>

\* The bytes of the planes are followed in AssemblerSpec; the decode loop
\* keeps the events of the copy only.
frameVars == << image, output_buffer >>

\* ------------------------------------------------------------- helpers
\* no picture whose planes are followed
NoImage == [w |-> 0, h |-> 0, stride |-> << 0, 0, 0 >>,
            planes |-> << << >>, << >>, << >> >>]

\* backlog episode: k pictures were queued when the feed returned
\* IMAGE_BUFFER_FULL, calls parse calls followed, emits frames were emitted in
\* the episode, clean: no handle_frame of the episode failed, cleared: a parse
\* call of the episode cleared dec->buffer_full
NoBacklog == [k |-> 0, calls |-> 0, emits |-> 0, clean |-> TRUE, cleared |-> FALSE]

\* a call's record: the handler, its events in order, the bytes it took from the
\* adapter, the bytes it pushed to the engine, its return value, the result
\* code of its feed (de265_push_data, then de265_decode; "" when it fed
\* nothing) and the code of the element error it posted ("" when none)
CallFeed(op, ev, took, fed, ret, feed, err) ==
  [op |-> op, ev |-> ev, took |-> took, fed |-> fed, ret |-> ret,
   feed |-> feed, err |-> err]

Call(op, ev, took, fed, ret) == CallFeed(op, ev, took, fed, ret, "", "")

Has(ev, e) == \E i \in 1..Len(ev) : ev[i] = e

Count(ev, e) == Cardinality({ i \in 1..Len(ev) : ev[i] = e })

\* position of the first e in ev, 0 when absent
First(ev, e) ==
  IF Has(ev, e) THEN CHOOSE i \in 1..Len(ev) : ev[i] = e /\ \A j \in 1..(i-1) : ev[j] # e
  ELSE 0

\* position of the last e in ev, 0 when absent
Last(ev, e) ==
  IF Has(ev, e) THEN CHOOSE i \in 1..Len(ev) : ev[i] = e /\ \A j \in (i+1)..Len(ev) : ev[j] # e
  ELSE 0

Repeat(e, n) == [i \in 1..n |-> e]

\* sequences over S of length 0..n
SeqUpTo(S, n) == UNION { [1..k -> S] : k \in 0..n }

\* ------------------------------------------------------------- reframer
\* int nal_size = READ_BE32 (start_data): the four bytes at offset pos
\* (0-based) read big-endian as a uint32_t and stored in an int, so values
\* from 2^31 on come out negative (the first byte counts as signed)
READ_BE32(data, pos) ==
  (IF data[pos + 1] >= 128 THEN data[pos + 1] - 256 ELSE data[pos + 1]) * 16777216
  + data[pos + 2] * 65536 + data[pos + 3] * 256 + data[pos + 4]

\* a WRITE_BE32 that stores the least significant byte first
WRITE_LE32(data, pos, d) ==
  [i \in 1..Len(data) |->
     IF i = pos + 4 THEN (d \div 16777216) % 256
     ELSE IF i = pos + 3 THEN (d \div 65536) % 256
     ELSE IF i = pos + 2 THEN (d \div 256) % 256
     ELSE IF i = pos + 1 THEN d % 256
     ELSE data[i]]

\* WRITE_BE32: store d big-endian at offset pos
WRITE_BE32(data, pos, d) ==
  [i \in 1..Len(data) |->
     IF i = pos + 1 THEN (d \div 16777216) % 256
     ELSE IF i = pos + 2 THEN (d \div 65536) % 256
     ELSE IF i = pos + 3 THEN (d \div 256) % 256
     ELSE IF i = pos + 4 THEN d % 256
     ELSE data[i]]

\* the while loop of the packetized branch, start_data as an offset into the
\* buffer.  st = "ok": left with start_data <= end_data; "overflow":
\* start_data > end_data; "ub": 4 + nal_size overflows int, or start_data
\* moved before the buffer, where the next read and write are out of bounds.
\* n counts the start codes written.
RECURSIVE ReframeLoop(_, _, _)
ReframeLoop(data, pos, n) ==
  IF pos + 4 <= Len(data)
  THEN LET nal_size == READ_BE32(data, pos)
           out == WRITE_BE32(data, pos, 1)
       IN IF nal_size > 2147483647 - 4
          THEN [st |-> "ub", data |-> out, pos |-> pos, n |-> n + 1]
          ELSE IF pos + 4 + nal_size < 0
          THEN [st |-> "ub", data |-> out, pos |-> pos + 4 + nal_size, n |-> n + 1]
          ELSE ReframeLoop(out, pos + 4 + nal_size, n + 1)
  ELSE [st |-> IF pos > Len(data) THEN "overflow" ELSE "ok",
        data |-> data, pos |-> pos, n |-> n]

Reframe(data) == ReframeLoop(data, 0, 0)

\* ------------------------------------------------- picture output assembler
\* gst_libde265_dec_handle_frame, run by gst_video_decoder_have_frame: pulls
\* the oldest picture first, then allocates and maps the output buffer, copies
\* the three planes and finishes the frame.  q: engine queue, em: frames
\* emitted so far.
gst_libde265_dec_handle_frame(q, em, outRes, flowRet) ==
  IF q = << >>
  THEN [queue |-> q, emitted |-> em, ev |-> << "pull" >>,
        ret |-> GST_FLOW_OK, failed |-> FALSE]
  ELSE IF outRes = "alloc_fail"
  THEN [queue |-> Tail(q), emitted |-> em, ev |-> << "pull", "alloc" >>,
        ret |-> GST_FLOW_NOT_NEGOTIATED, failed |-> TRUE]
  ELSE IF outRes = "map_fail"
  THEN [queue |-> Tail(q), emitted |-> em, ev |-> << "pull", "alloc", "map" >>,
        ret |-> GST_FLOW_ERROR, failed |-> TRUE]
  ELSE [queue |-> Tail(q), emitted |-> Append(em, Head(q)),
        ev |-> << "pull", "alloc", "map", "copy", "copy", "copy", "unmap", "finish" >>,
        ret |-> flowRet, failed |-> FALSE]

\* a geometry test that looks at the width alone
GeometryChangedWidthOnly(dim, w, h) == dim[1] # w

\* the geometry test of _gst_libde265_image_available
GeometryChanged(dim, w, h) == dim[1] # w \/ dim[2] # h

\* _gst_libde265_image_available for the peeked picture img (an index into
\* prod): renegotiates when the geometry differs from dec->width/height (the
\* result negOk of gst_video_decoder_negotiate is not looked at), records the
\* new geometry, then calls have_frame.
gst_libde265_image_available(img, prod, w, h, q, em, rq, negOk, outRes, flowRet) ==
  LET dim == prod[img]
      changed == GeometryChanged(dim, w, h)
      hf == gst_libde265_dec_handle_frame(q, em, outRes, flowRet)
  IN [width |-> IF changed THEN dim[1] ELSE w,
      height |-> IF changed THEN dim[2] ELSE h,
      requests |-> IF changed
                   THEN Append(rq, [w |-> dim[1], h |-> dim[2], at |-> Len(em)])
                   ELSE rq,
      changed |-> changed,
      queue |-> hf.queue,
      emitted |-> hf.emitted,
      ev |-> (IF changed THEN << "set_output_state", "negotiate" >> ELSE << >>)
             \o (IF changed /\ ~negOk THEN << "negotiate_failed" >> ELSE << >>)
             \o << "have_frame" >> \o hf.ev,
      ret |-> hf.ret,
      failed |-> hf.failed]

\* ------------------------------------------------------------ initial state
\* gst_libde265_dec_init: default mode, _gst_libde265_dec_reset_decoder
Init ==
  /\ ctx = NULL
  /\ width = -1
  /\ height = -1
  /\ buffer_full = 0
  /\ mode = DEFAULT_MODE
  /\ adapter = << >>
  /\ queue = << >>
  /\ warnings = 0
  /\ produced = << >>
  /\ emitted = << >>
  /\ requests = << >>
  /\ last = Call("init", << >>, << >>, << >>, GST_FLOW_OK)
  /\ outFail = FALSE
  /\ errSeen = ""
  /\ out_state = << -1, -1 >>
  /\ eos = FALSE
  /\ bl = NoBacklog
  /\ crashed = FALSE
  /\ image = NoImage
  /\ output_buffer = << >>
  /\ threads = 0

\* ------------------------------------------------------------ lifecycle
\* _gst_libde265_dec_reset_decoder: the fields it assigns
ResetDecoder ==
  /\ width' = -1
  /\ height' = -1
  /\ buffer_full' = 0

\* de265_peek_next_picture (dec->ctx) != NULL
PeekFinds(q) == q # << >>

\* a flush that pulls nothing
FlushKeepsAll(q) == q

\* a flush that pulls one picture instead of looping
FlushOnce(q) == IF q = << >> THEN q ELSE Tail(q)

\* the do-while loop of gst_libde265_dec_flush: de265_get_next_picture until
\* it returns NULL
FlushLoop(q) == << >>

\* the while loop over de265_get_warning: it ends when no warning is left
DrainWarnings(w) == 0

\* a new segment: the histories start over
NewSegment ==
  /\ produced' = << >>
  /\ emitted' = << >>
  /\ requests' = << >>
  /\ outFail' = FALSE
  /\ errSeen' = ""
  /\ eos' = FALSE
  /\ bl' = NoBacklog

\* a _gst_libde265_dec_free_decoder without the test for NULL
FreeUnconditionally(c) == << "free" >>

\* _gst_libde265_dec_free_decoder: de265_free_decoder if dec->ctx != NULL
FreeDecoder(c) == IF c # NULL THEN << "free" >> ELSE << >>

\* a thread count taken from sysconf as it comes
ThreadCountUnchecked(n) == n

\* threads = sysconf (...); if (threads <= 0) threads = DEFAULT_THREAD_COUNT
ThreadCount(n) == IF n <= 0 THEN DEFAULT_THREAD_COUNT ELSE n

\* gst_libde265_dec_start: frees an existing decoder, creates a new one
\* (de265_new_decoder may return NULL) and starts the worker threads; sysconf
\* is asked only when the context exists, and took holds what it returned
gst_libde265_dec_start ==
  /\ ~crashed
  /\ UNCHANGED frameVars
  /\ \/ /\ ctx' = NULL
        /\ threads' = 0
        /\ last' = Call("start", FreeDecoder(ctx) \o << "new" >>, << >>, << >>, "FALSE")
     \/ \E n \in HostParallelism :
          /\ ctx' = "ctx"
          /\ threads' = ThreadCount(n)
          /\ last' = Call("start",
                          FreeDecoder(ctx) \o << "new", "sysconf", "start_worker_threads" >>,
                          << n >>, << >>, "TRUE")
  /\ ResetDecoder
  /\ queue' = << >>
  /\ warnings' = 0
  /\ NewSegment
  /\ out_state' = << -1, -1 >>
  /\ UNCHANGED << mode, adapter, crashed >>

\* gst_libde265_dec_stop: _gst_libde265_dec_free_decoder
gst_libde265_dec_stop ==
  /\ ~crashed
  /\ UNCHANGED frameVars
  /\ ctx' = NULL
  /\ ResetDecoder
  /\ queue' = << >>
  /\ warnings' = 0
  /\ NewSegment
  /\ threads' = 0
  /\ last' = Call("stop", FreeDecoder(ctx), << >>, << >>, "TRUE")
  /\ out_state' = << -1, -1 >>
  /\ UNCHANGED << mode, adapter, crashed >>

\* gst_libde265_dec_flush: pulls pictures until none is left, clears the
\* backlog flag.  With no context the first de265_get_next_picture
\* dereferences NULL: the process dies, or the call comes back empty.
gst_libde265_dec_flush ==
  /\ ~crashed
  /\ UNCHANGED threads
  /\ UNCHANGED frameVars
  /\ IF ctx = NULL
     THEN \E dies \in BOOLEAN :
            /\ crashed' = dies
            /\ buffer_full' = IF dies THEN buffer_full ELSE 0
            /\ last' = Call("flush", << "pull_null_ctx" >>, << >>, << >>,
                            IF dies THEN NO_RETURN ELSE "TRUE")
            /\ UNCHANGED << queue, produced, emitted, requests, outFail, errSeen,
                            eos, bl >>
     ELSE /\ queue' = FlushLoop(queue)
          /\ NewSegment
          /\ buffer_full' = 0
          /\ last' = Call("flush", Repeat("pull", Len(queue) + 1) \o << "clear" >>,
                          << >>, << >>, "TRUE")
          /\ UNCHANGED crashed
  /\ UNCHANGED << ctx, width, height, mode, adapter, warnings, out_state >>

\* gst_libde265_dec_set_property (PROP_MODE)
gst_libde265_dec_set_property ==
  /\ ~crashed
  /\ UNCHANGED threads
  /\ UNCHANGED frameVars
  /\ \E m \in { GST_TYPE_LIBDE265_DEC_PACKETIZED, GST_TYPE_LIBDE265_DEC_RAW } :
       /\ m # mode
       /\ mode' = m
  /\ last' = Call("set_property", << >>, << >>, << >>, "")
  /\ UNCHANGED << ctx, width, height, buffer_full, adapter, queue, warnings,
                  produced, emitted, requests, outFail, errSeen, out_state,
                  eos, bl, crashed >>

\* ------------------------------------------------------------ upstream
\* the base class's chain function appends the pushed buffer to the adapter
Chain ==
  /\ ~crashed
  /\ UNCHANGED threads
  /\ UNCHANGED frameVars
  /\ ~eos
  /\ \E c \in Chunks :
       /\ Len(adapter) + Len(c) <= MaxAdapter
       /\ adapter' = adapter \o c
  /\ last' = Call("chain", << >>, << >>, << >>, "")
  /\ UNCHANGED << ctx, width, height, buffer_full, mode, queue, warnings,
                  produced, emitted, requests, outFail, errSeen, out_state,
                  eos, bl, crashed >>

\* upstream signals end of stream once the parse calls of its last chunk have
\* emptied the adapter: no chunk follows
Eos ==
  /\ ~crashed
  /\ UNCHANGED threads
  /\ UNCHANGED frameVars
  /\ ~eos
  /\ adapter = << >>
  /\ eos' = TRUE
  /\ last' = Call("eos", << >>, << >>, << >>, "")
  /\ UNCHANGED << ctx, width, height, buffer_full, mode, adapter, queue, warnings,
                  produced, emitted, requests, outFail, errSeen, out_state,
                  bl, crashed >>

\* ------------------------------------------------------------ parse
\* the state gst_libde265_dec_parse can change
ParseKeep ==
  [width |-> width, height |-> height, buffer_full |-> buffer_full,
   adapter |-> adapter, queue |-> queue, warnings |-> warnings,
   produced |-> produced, emitted |-> emitted, requests |-> requests,
   outFail |-> outFail, out_state |-> out_state,
   bl |-> IF bl.cleared THEN NoBacklog ELSE bl, crashed |-> crashed]

Outcome(r, call) == [r |-> r, call |-> call]

\* undefined behaviour that ends the process
Crash(r, ev, took) ==
  Outcome([r EXCEPT !.crashed = TRUE],
          CallFeed("parse", ev, took, << >>, NO_RETURN, "", "crash"))

\* the results of downstream that matter for the picture at the head of
\* r.queue: gst_video_decoder_negotiate, the output allocation and mapping,
\* gst_video_decoder_finish_frame
ImageInputs(r) ==
  { i \in [neg : BOOLEAN, out : OutResults, flow : FlowRets] :
      i.out = "ok" \/ i.flow = GST_FLOW_OK }

\* return _gst_libde265_image_available (decoder, img) for the head of r.queue
ImageOutcomes(r, ev, took, fed, feed) ==
  { LET ia == gst_libde265_image_available(Head(r.queue), r.produced, r.width,
                 r.height, r.queue, r.emitted, r.requests, i.neg, i.out, i.flow)
    IN [r |-> [r EXCEPT !.width = ia.width, !.height = ia.height,
                        !.requests = ia.requests, !.queue = ia.queue,
                        !.emitted = ia.emitted,
                        !.out_state = IF ia.changed
                                      THEN << ia.width, ia.height >> ELSE @,
                        !.outFail = r.outFail \/ ia.failed],
        call |-> CallFeed("parse", ev \o ia.ev, took, fed, ia.ret, feed, ""),
        emits |-> Len(ia.emitted) - Len(r.emitted),
        failed |-> ia.failed]
    : i \in ImageInputs(r) }

\* what de265_push_data and de265_decode can answer: the result code, the
\* pictures decode appended to the queue and the warnings it queued
FeedReturns(r) ==
  { [push |-> c, ret |-> c, pics |-> << >>, warn |-> 0] : c \in FatalCodes }
  \cup
  [push : { DE265_OK },
   ret : { DE265_OK, DE265_ERROR_IMAGE_BUFFER_FULL,
           DE265_ERROR_WAITING_FOR_INPUT_DATA } \cup FatalCodes,
   pics : SeqUpTo(Dims, MaxPictures - Len(r.produced)),
   warn : 0..(MaxWarnings - r.warnings)]

\* case DE265_ERROR_IMAGE_BUFFER_FULL: dec->buffer_full = 1
OnBufferFull(r) == [r EXCEPT !.buffer_full = 1]

\* a default branch that also forgets the geometry
FatalForgetsGeometry(r, ev, took, fed, code) ==
  Outcome([r EXCEPT !.width = -1, !.height = -1],
          CallFeed("parse", ev \o << "post_error" >>, took, fed,
                   GST_FLOW_ERROR, code, code))

\* a default branch that returns the error without posting the engine's code
FatalWithoutCode(r, ev, took, fed, code) ==
  Outcome(r, CallFeed("parse", ev, took, fed, GST_FLOW_ERROR, code, ""))

\* the default branch: GST_ELEMENT_ERROR with the engine's text and code
FatalOutcome(r, ev, took, fed, code) ==
  Outcome(r, CallFeed("parse", ev \o << "post_error" >>, took, fed,
                      GST_FLOW_ERROR, code, code))

\* switch (ret) and what follows it, for the engine's answer d
Switch(r, ev, took, fed, d) ==
  LET n == Len(r.produced)
      r2 == [r EXCEPT !.produced = @ \o d.pics,
                      !.queue = @ \o [i \in 1..Len(d.pics) |-> n + i],
                      !.warnings = @ + d.warn]
  IN CASE d.ret = DE265_OK ->
            LET r3 == [r2 EXCEPT !.warnings = DrainWarnings(@)]
                ev3 == ev \o Repeat("warn", r2.warnings - r3.warnings) \o << "peek" >>
            IN IF PeekFinds(r3.queue)
               THEN { Outcome(o.r, o.call)
                      : o \in ImageOutcomes(r3, ev3, took, fed, d.ret) }
               ELSE { Outcome(r3, CallFeed("parse", ev3, took, fed,
                                  GST_VIDEO_DECODER_FLOW_NEED_DATA, d.ret, "")) }
       [] d.ret = DE265_ERROR_IMAGE_BUFFER_FULL ->
            LET r3 == OnBufferFull(r2)
                ev3 == ev \o << "set_full", "peek" >>
            IN IF PeekFinds(r3.queue)
               THEN { Outcome([o.r EXCEPT !.bl = [k |-> Len(r3.queue), calls |-> 0,
                                                  emits |-> o.emits,
                                                  clean |-> ~o.failed,
                                                  cleared |-> FALSE]],
                              o.call)
                      : o \in ImageOutcomes(r3, ev3, took, fed, d.ret) }
               ELSE { Outcome([r3 EXCEPT !.bl = NoBacklog],
                              CallFeed("parse", ev3, took, fed,
                                       GST_VIDEO_DECODER_FLOW_NEED_DATA, d.ret, "")) }
       [] d.ret = DE265_ERROR_WAITING_FOR_INPUT_DATA ->
            { Outcome(r2, CallFeed("parse", ev, took, fed,
                                   GST_VIDEO_DECODER_FLOW_NEED_DATA, d.ret, "")) }
       [] OTHER -> { FatalOutcome(r2, ev, took, fed, d.ret) }

\* de265_push_data, gst_buffer_unmap, gst_buffer_unref, de265_decode, switch.
\* With no context de265_push_data dereferences NULL: the process dies, or the
\* call fails.
Push(r, ev, took, fed) ==
  IF ctx = NULL
  THEN { Crash(r, ev \o << "push_null_ctx" >>, took),
         FatalOutcome(r, ev \o << "push_null_ctx", "unmap", "unref" >>, took, fed,
                      DE265_ERROR_OUT_OF_MEMORY) }
  ELSE UNION { Switch(r, ev \o << "push", "unmap", "unref" >>
                               \o (IF d.push = DE265_OK THEN << "decode" >> ELSE << >>),
                      took, fed, d)
               : d \in FeedReturns(r) }

\* an overflow branch that also resets the decoder fields
OverflowResets(r, ev, took) ==
  Outcome([r EXCEPT !.width = -1, !.height = -1, !.buffer_full = 0],
          CallFeed("parse", ev \o << "post_error" >>, took, << >>,
                   GST_FLOW_ERROR, "", "overflow"))

\* GST_ELEMENT_ERROR ("Overflow in input data, check data mode")
OverflowOutcome(r, ev, took) ==
  Outcome(r, CallFeed("parse", ev \o << "post_error" >>, took, << >>,
                      GST_FLOW_ERROR, "", "overflow"))

\* the mapped buffer: the packetized branch, then the feed.  When the loop
\* runs into undefined behaviour the process dies, or the loop ends on bytes
\* outside the buffer either above end_data or not.
Mapped(r, ev, data) ==
  IF mode = GST_TYPE_LIBDE265_DEC_PACKETIZED
  THEN LET rf == Reframe(data)
           ev1 == ev \o << "reframe" >>
       IN CASE rf.st = "overflow" -> { OverflowOutcome(r, ev1, data) }
            [] rf.st = "ub" -> { Crash(r, ev1, data), OverflowOutcome(r, ev1, data) }
                               \cup Push(r, ev1, data, rf.data)
            [] OTHER -> Push(r, ev1, data, rf.data)
  ELSE Push(r, ev, data, data)

\* a parse without the test size == 0: it takes and feeds the empty buffer
AfterDrainWithoutSizeTest(r, ev) ==
  Mapped(r, ev \o << "take", "map" >>, r.adapter)

\* from gst_adapter_available on
AfterDrain(r, ev) ==
  IF Len(r.adapter) = 0
  THEN { Outcome(r, Call("parse", ev, << >>, << >>, GST_VIDEO_DECODER_FLOW_NEED_DATA)) }
  ELSE LET data == r.adapter
           r1 == [r EXCEPT !.adapter = << >>]
           ev1 == ev \o << "take" >>
       IN { Outcome(r1, Call("parse", ev1 \o << "map_fail" >>, data, << >>, GST_FLOW_ERROR)) }
          \cup Mapped(r1, ev1 \o << "map" >>, data)

\* the kind of error a parse call returned, prev when it returned none
ErrorKind(call, prev) ==
  IF call.ret \in { GST_FLOW_OK, GST_VIDEO_DECODER_FLOW_NEED_DATA } THEN prev
  ELSE IF call.err \in FatalCodes THEN "fatal"
  ELSE IF call.err = "overflow" THEN "overflow"
  ELSE "error"

\* every way one call of gst_libde265_dec_parse can go from the current state
ParseOutcomes ==
  LET r == ParseKeep
  IN IF r.buffer_full = 1
     THEN IF ctx = NULL
          THEN { Crash(r, << "peek_null_ctx" >>, << >>) }
               \cup AfterDrain([r EXCEPT !.buffer_full = 0], << "peek_null_ctx", "clear" >>)
          ELSE IF PeekFinds(r.queue)
          THEN { Outcome([o.r EXCEPT !.bl = IF r.bl.k > 0
                                            THEN [r.bl EXCEPT !.calls = @ + 1,
                                                              !.emits = @ + o.emits,
                                                              !.clean = @ /\ ~o.failed]
                                            ELSE r.bl],
                         o.call)
                 : o \in ImageOutcomes(r, << "peek" >>, << >>, << >>, "") }
          ELSE AfterDrain([r EXCEPT !.buffer_full = 0,
                                    !.bl = IF r.bl.k > 0
                                           THEN [r.bl EXCEPT !.calls = @ + 1,
                                                             !.cleared = TRUE]
                                           ELSE r.bl],
                          << "peek", "clear" >>)
     ELSE AfterDrain(r, << >>)

\* gst_libde265_dec_parse, with the handle_frame that have_frame runs
gst_libde265_dec_parse ==
  /\ ~crashed
  /\ UNCHANGED threads
  /\ UNCHANGED frameVars
  /\ \E o \in ParseOutcomes :
       /\ width' = o.r.width
       /\ height' = o.r.height
       /\ buffer_full' = o.r.buffer_full
       /\ adapter' = o.r.adapter
       /\ queue' = o.r.queue
       /\ warnings' = o.r.warnings
       /\ produced' = o.r.produced
       /\ emitted' = o.r.emitted
       /\ requests' = o.r.requests
       /\ outFail' = o.r.outFail
       /\ out_state' = o.r.out_state
       /\ errSeen' = ErrorKind(o.call, errSeen)
       /\ bl' = o.r.bl
       /\ crashed' = o.r.crashed
       /\ last' = o.call
  /\ UNCHANGED << ctx, mode, eos >>

\* ------------------------------------------------------------ specification
Next ==
  \/ gst_libde265_dec_start
  \/ gst_libde265_dec_stop
  \/ gst_libde265_dec_flush
  \/ gst_libde265_dec_set_property
  \/ gst_libde265_dec_parse
  \/ Chain
  \/ Eos

Spec == Init /\ [][Next]_vars

\* ------------------------------------------------- the reframer on its own
\* payload bytes; 0 and 1 are the bytes a start code is made of
PayloadBytes == { 0, 1, 7 }

\* a well-formed record: the length L big-endian, then L payload bytes
RecordSet ==
  UNION { { << 0, 0, 0, L >> \o p : p \in [1..L -> PayloadBytes] }
          : L \in 0..MaxPayload }

RECURSIVE Concat(_)
Concat(ss) == IF ss = << >> THEN << >> ELSE Head(ss) \o Concat(Tail(ss))

\* buffers with a length field of 2^31 - 4 or more: upstream decides the bytes
SignBitBuffers ==
  { << 255, 255, 255, 248, 7 >>,              \* L = 0xFFFFFFF8
    << 0, 0, 0, 0, 255, 255, 255, 248 >>,     \* L = 0, then L = 0xFFFFFFF8
    << 128, 0, 0, 0 >>,                       \* L = 0x80000000
    << 127, 255, 255, 252, 7 >> }             \* L = 0x7FFFFFFC

\* the buffers gst_adapter_take_buffer can hand to the packetized branch: up
\* to MaxRecords well-formed records followed by up to MaxLeftover bytes, and
\* the chunks of the decode loop
ReframerInputs ==
  ({ Concat(rs) \o Repeat(7, k) : rs \in SeqUpTo(RecordSet, MaxRecords),
                                  k \in 0..MaxLeftover }
   \cup Chunks \cup SignBitBuffers) \ { << >> }

\* the decoder is started and one buffer is in the adapter
ReframerInit ==
  /\ ctx = "ctx"
  /\ width = -1
  /\ height = -1
  /\ buffer_full = 0
  /\ mode \in { GST_TYPE_LIBDE265_DEC_PACKETIZED, GST_TYPE_LIBDE265_DEC_RAW }
  /\ adapter \in ReframerInputs
  /\ queue = << >>
  /\ warnings = 0
  /\ produced = << >>
  /\ emitted = << >>
  /\ requests = << >>
  /\ last = Call("chain", << >>, << >>, << >>, "")
  /\ outFail = FALSE
  /\ errSeen = ""
  /\ out_state = << -1, -1 >>
  /\ eos = FALSE
  /\ bl = NoBacklog
  /\ crashed = FALSE
  /\ image = NoImage
  /\ output_buffer = << >>
  /\ threads = DEFAULT_THREAD_COUNT

\* lines 363-386 of gst_libde265_dec_parse up to the call of de265_push_data:
\* the buffer is taken and mapped, rewritten in place in packetized mode, and
\* passed to de265_push_data unless the overflow test fails.  One "start_code"
\* event per WRITE_BE32; fed is the buffer de265_push_data receives.
Reframer ==
  /\ ~crashed
  /\ UNCHANGED threads
  /\ UNCHANGED frameVars
  /\ last.op = "chain"
  /\ adapter # << >>
  /\ LET rf == Reframe(adapter)
         ev == << "take", "map", "reframe" >> \o Repeat("start_code", rf.n)
         overflow == CallFeed("reframer", ev \o << "post_error" >>, adapter, << >>,
                              GST_FLOW_ERROR, "", "overflow")
         push == CallFeed("reframer", ev \o << "push" >>, adapter, rf.data,
                          "", "", "")
         crash == CallFeed("reframer", ev, adapter, << >>, NO_RETURN, "", "crash")
     IN IF mode = GST_TYPE_LIBDE265_DEC_PACKETIZED
        THEN \E o \in (CASE rf.st = "overflow" -> { overflow }
                          [] rf.st = "ub" -> { crash, overflow, push }
                          [] OTHER -> { push }) :
               /\ last' = o
               /\ crashed' = (o.err = "crash")
        ELSE /\ last' = CallFeed("reframer", << "take", "map", "push" >>, adapter,
                                 adapter, "", "", "")
             /\ UNCHANGED crashed
  /\ adapter' = << >>
  /\ UNCHANGED << ctx, width, height, buffer_full, mode, queue, warnings,
                  produced, emitted, requests, outFail, errSeen, out_state,
                  eos, bl >>

ReframerSpec == ReframerInit /\ [][Reframer]_vars

\* ------------------------------------------- the output assembler on its own
\* de265_get_image_width (img, plane) and de265_get_image_height (img, plane)
\* of a 4:2:0 picture, planes numbered 1..3
PlaneWidth(w, plane) == IF plane = 1 THEN w ELSE w \div 2

PlaneHeight(h, plane) == IF plane = 1 THEN h ELSE h \div 2

\* the sample at column x, row y of a plane: every sample of a picture has a
\* value of its own
Sample(plane, x, y) == 64 * plane + 8 * y + x

\* the memory de265_get_image_plane returns: PlaneHeight rows of stride bytes,
\* PlaneWidth samples then padding
PlaneBytes(w, h, plane, stride, pad) ==
  [i \in 1..(PlaneHeight(h, plane) * stride) |->
     IF (i - 1) % stride < PlaneWidth(w, plane)
     THEN Sample(plane, (i - 1) % stride, (i - 1) \div stride)
     ELSE pad]

\* geometries of the pictures the assembler is given
AssemblerDims == Dims \cup { << 4, 2 >>, << 4, 4 >>, << 8, 2 >> }

\* decoded pictures: each plane has its own stride, at least its width
Images ==
  { [w |-> d[1], h |-> d[2],
     stride |-> [plane \in 1..3 |-> PlaneWidth(d[1], plane) + extra[plane]],
     planes |-> [plane \in 1..3 |->
                   PlaneBytes(d[1], d[2], plane,
                              PlaneWidth(d[1], plane) + extra[plane], pad)]]
    : d \in AssemblerDims, extra \in [1..3 -> 0..MaxPad], pad \in { 0, 255 } }

\* the for loop of gst_libde265_dec_handle_frame: memcpy (dest, src,
\* height * stride) for each plane, dest advancing by height * stride
CopyPlanes(img) ==
  Concat([plane \in 1..3 |->
            SubSeq(img.planes[plane], 1, PlaneHeight(img.h, plane) * img.stride[plane])])

\* parse has peeked the picture, recorded its geometry and called have_frame
AssemblerInit ==
  /\ ctx = "ctx"
  /\ image \in Images
  /\ width = image.w
  /\ height = image.h
  /\ buffer_full = 0
  /\ mode = DEFAULT_MODE
  /\ adapter = << >>
  /\ queue = << 1 >>
  /\ warnings = 0
  /\ produced = << << image.w, image.h >> >>
  /\ emitted = << >>
  /\ requests = << [w |-> image.w, h |-> image.h, at |-> 0] >>
  /\ last = Call("have_frame", << >>, << >>, << >>, "")
  /\ outFail = FALSE
  /\ errSeen = ""
  /\ out_state = << image.w, image.h >>
  /\ eos = FALSE
  /\ bl = NoBacklog
  /\ crashed = FALSE
  /\ output_buffer = << >>
  /\ threads = DEFAULT_THREAD_COUNT

\* GST_ROUND_UP_4, GST_ROUND_UP_2
RoundUp(n, k) == ((n + k - 1) \div k) * k

\* the size of the buffer gst_video_decoder_allocate_output_frame allocates
\* for the output state set with GST_VIDEO_FORMAT_I420, w and h: GstVideoInfo
\* rounds the luma stride and the chroma stride up to 4 bytes and the height
\* up to 2 rows
OutputSize(w, h) ==
  RoundUp(w, 4) * RoundUp(h, 2)
  + 2 * (RoundUp(RoundUp(w, 2) \div 2, 4) * (RoundUp(h, 2) \div 2))

\* gst_libde265_dec_handle_frame with the bytes it copies.  dest is advanced
\* without a test against the size of the mapped buffer: when the planes are
\* larger than the buffer the memcpy writes past its end, and the process
\* dies there or goes on with the bytes written.
Assembler ==
  /\ ~crashed
  /\ UNCHANGED threads
  /\ last.op = "have_frame"
  /\ \E i \in ImageInputs(ParseKeep) :
       LET hf == gst_libde265_dec_handle_frame(queue, emitted, i.out, i.flow)
           bytes == CopyPlanes(image)
           size == OutputSize(out_state[1], out_state[2])
           copies == Has(hf.ev, "copy")
       IN \E dies \in (IF copies /\ Len(bytes) > size THEN BOOLEAN ELSE { FALSE }) :
            /\ queue' = hf.queue
            /\ emitted' = IF dies THEN emitted ELSE hf.emitted
            /\ outFail' = hf.failed
            /\ crashed' = dies
            /\ output_buffer' = IF ~copies THEN output_buffer
                                 ELSE IF dies THEN SubSeq(bytes, 1, size)
                                 ELSE bytes
            /\ last' = IF dies
                       THEN Call("handle_frame", SubSeq(hf.ev, 1, Last(hf.ev, "copy")),
                                 << >>, << >>, NO_RETURN)
                       ELSE Call("handle_frame", hf.ev, << >>, << >>, hf.ret)
  /\ UNCHANGED << ctx, width, height, buffer_full, mode, adapter, warnings,
                  produced, requests, errSeen, out_state, eos, bl, image >>

AssemblerSpec == AssemblerInit /\ [][Assembler]_vars

\* ================================================================ claims
NoFeed(ev) == ~Has(ev, "take") /\ ~Has(ev, "push") /\ ~Has(ev, "decode")

InDecodeOrder == \A i \in 1..Len(emitted) : emitted[i] = i

\* C1: with no flush or stop (the histories start over at both),
\* the frames emitted are at every moment a prefix of the pictures the engine
\* produced: frame i is picture i.
C1_EmittedIsPrefixOfProduced == InDecodeOrder

\* What the code keeps of the decode order: as long as no handle_frame failed
\* to allocate or map its output buffer, the frames emitted are a prefix of
\* the pictures produced and every other picture is still queued, in order.
C1_PrefixWhileOutputSucceeds ==
  ~outFail =>
    /\ InDecodeOrder
    /\ queue = [i \in 1..(Len(produced) - Len(emitted)) |-> Len(emitted) + i]

\* C2: once the input has run out with no flush, stop or error, and a parse
\* call on the empty adapter has answered need-data, every picture the engine
\* produced has been emitted.
C2_AllPicturesEmittedAtEos ==
  (eos /\ adapter = << >> /\ last.op = "parse" /\ errSeen = "" /\ ~outFail
       /\ last.ret = GST_VIDEO_DECODER_FLOW_NEED_DATA)
    => Len(emitted) = Len(produced)

\* C3: a parse call with the backlog flag set and a picture pending
\* emits exactly that picture and takes nothing from the adapter and feeds
\* nothing; the flag is cleared, and the chunk fed, only when the peek finds
\* no picture.
C3_BacklogDrainEmitsOldest ==
  [][ (last'.op = "parse" /\ buffer_full = 1) =>
        IF queue # << >>
        THEN /\ emitted' = Append(emitted, Head(queue))
             /\ adapter' = adapter
             /\ NoFeed(last'.ev)
             /\ ~Has(last'.ev, "clear")
        ELSE /\ Has(last'.ev, "clear")
             /\ (adapter # << >> => Has(last'.ev, "take")) ]_vars

\* What the code does in a backlog drain: a parse call with the backlog flag
\* set and a picture pending hands exactly that picture to handle_frame, which pulls it and emits it
\* unless it fails to allocate or map the output buffer (then the picture is
\* dropped and the call returns the error); either way the call takes nothing
\* from the adapter, feeds nothing and leaves the flag set.  The flag is
\* cleared, and the chunk taken, only when the peek finds no picture.
C3_BacklogDrainHandsOverOldest ==
  [][ (last'.op = "parse" /\ buffer_full = 1) =>
        IF queue # << >>
        THEN /\ queue' = Tail(queue)
             /\ \/ /\ emitted' = Append(emitted, Head(queue))
                   /\ Has(last'.ev, "finish")
                \/ /\ emitted' = emitted
                   /\ ~Has(last'.ev, "finish")
                   /\ outFail'
                   /\ last'.ret \in { GST_FLOW_NOT_NEGOTIATED, GST_FLOW_ERROR }
             /\ adapter' = adapter
             /\ NoFeed(last'.ev)
             /\ ~Has(last'.ev, "clear")
             /\ buffer_full' = 1
        ELSE /\ Has(last'.ev, "clear")
             /\ (adapter # << >> => Has(last'.ev, "take") /\ last'.took = adapter) ]_vars

\* C4: after a feed that returned BufferFull with k pictures queued,
\* the flag is set and that call and each of the next k-1 parse calls emit
\* one picture; the flag is cleared after the k-th picture has been drained.
C4_BacklogDrainsOnePerCall ==
  bl.k > 0 =>
    IF bl.cleared
    THEN buffer_full = 0 /\ bl.emits = bl.k /\ bl.calls = bl.k
    ELSE buffer_full = 1 /\ bl.emits = bl.calls + 1 /\ bl.calls < bl.k

\* What the code does after BufferFull: the same, as long as no handle_frame
\* of the episode failed to allocate or map its output buffer; the flag is still set when the call
\* that drains the k-th picture returns and is cleared by the next parse call,
\* whose peek finds nothing.
C4_BacklogDrainsOnePerCallWhileOutputSucceeds ==
  (bl.k > 0 /\ bl.clean) =>
    IF bl.cleared
    THEN buffer_full = 0 /\ bl.emits = bl.k /\ bl.calls = bl.k
    ELSE /\ buffer_full = 1
         /\ bl.emits = bl.calls + 1
         /\ bl.calls < bl.k
         /\ Len(queue) = bl.k - bl.emits

\* C5: whenever the backlog flag goes from set to cleared, the engine's queue
\* holds no picture at that moment: in parse the peek just before found
\* none; flush has pulled every picture; start and stop have destroyed the
\* context.
C5_FlagClearedOnlyOnEmptyQueue ==
  [][ /\ (last'.op = "parse" /\ Has(last'.ev, "clear")) => queue = << >>
      /\ (last'.op # "parse" /\ buffer_full = 1 /\ buffer_full' = 0) => queue' = << >> ]_vars

C5_Witness ==
  /\ last.op = "parse"
  /\ Has(last.ev, "clear")
  /\ Has(last.ev, "push")
  /\ buffer_full = 0

\* C6: no parse call whose feed returned Ok, NeedMoreInput or
\* BufferFull returns with a warning still queued in the engine.
C6_WarningsDrainedAfterAnyFeed ==
  (last.op = "parse" /\ last.feed \in { DE265_OK, DE265_ERROR_IMAGE_BUFFER_FULL,
                                        DE265_ERROR_WAITING_FOR_INPUT_DATA })
    => warnings = 0

\* Where the code drains warnings: after a feed that returned Ok the warnings are drained to
\* exhaustion after decode and before the peek, so before any emission, and
\* parse returns with none queued; after NeedMoreInput or BufferFull parse
\* retrieves no warning at all.
C6_WarningsDrainedAfterOk ==
  last.op = "parse" =>
    /\ last.feed = DE265_OK =>
         /\ warnings = 0
         /\ \A i \in 1..Len(last.ev) :
              last.ev[i] = "warn" =>
                /\ First(last.ev, "decode") < i
                /\ i < Last(last.ev, "peek")
                /\ (Has(last.ev, "have_frame") => i < First(last.ev, "have_frame"))
    /\ last.feed \in { DE265_ERROR_IMAGE_BUFFER_FULL,
                       DE265_ERROR_WAITING_FOR_INPUT_DATA } => ~Has(last.ev, "warn")

RECURSIVE RecordsOverrun(_, _)
RecordsOverrun(data, pos) ==
  IF pos + 4 > Len(data) THEN FALSE
  ELSE IF data[pos + 1] >= 128 THEN TRUE
  ELSE LET L == READ_BE32(data, pos)
       IN IF L > Len(data) - pos - 4 THEN TRUE
          ELSE RecordsOverrun(data, pos + 4 + L)

\* C8: in packetized mode a buffer whose records overrun its end makes parse
\* fail with the overflow error, and nothing is pushed to the engine.
C8_OverrunRejectedBeforeFeed ==
  (last.op = "parse" /\ Has(last.ev, "reframe") /\ RecordsOverrun(last.took, 0))
    => /\ last.err = "overflow"
       /\ last.ret = GST_FLOW_ERROR
       /\ ~Has(last.ev, "push")

\* C9 as stated: a parse call that fails with the overflow error leaves the
\* backlog flag, the geometry and the context unchanged and drops the chunk.
C9_OverflowChangesNothing ==
  [][ (last'.op = "parse" /\ last'.err = "overflow") =>
        /\ buffer_full' = buffer_full
        /\ width' = width /\ height' = height
        /\ ctx' = ctx
        /\ adapter' = << >>
        /\ ~crashed' ]_vars

\* C9, amended: a parse call that fails with the overflow error leaves the
\* geometry, the context and the engine unchanged and has dropped the chunk;
\* the backlog flag is unchanged too, except that a flag that was set with no
\* picture pending was cleared by the check at the top of that call.  Nothing
\* is latched: after it, a parse call with a valid chunk and no backlog pushes
\* the reframed chunk to the engine.
C9_OverflowIsLocal ==
  [][ last'.op = "parse" =>
        /\ last'.err = "overflow" =>
             /\ buffer_full' = (IF Has(last'.ev, "clear") THEN 0 ELSE buffer_full)
             /\ (Has(last'.ev, "clear") => buffer_full = 1 /\ queue = << >>)
             /\ width' = width /\ height' = height
             /\ ctx' = ctx
             /\ queue' = queue /\ warnings' = warnings /\ emitted' = emitted
             /\ last'.took = adapter
             /\ adapter' = << >>
             /\ ~Has(last'.ev, "push")
             /\ ~crashed'
        /\ (errSeen = "overflow" /\ buffer_full = 0 /\ ctx # NULL /\ adapter # << >>
              /\ mode = GST_TYPE_LIBDE265_DEC_PACKETIZED
              /\ ~RecordsOverrun(adapter, 0) /\ Has(last'.ev, "map")) =>
             /\ Has(last'.ev, "push")
             /\ Len(last'.fed) = Len(adapter)
             /\ last'.err # "overflow" ]_vars

C9_Witness ==
  /\ errSeen = "overflow"
  /\ last.op = "parse"
  /\ Has(last.ev, "reframe")
  /\ Has(last.ev, "push")
  /\ last.feed = DE265_OK

\* C10: when two consecutive pictures with different geometry are both
\* emitted, exactly one renegotiation request is issued between the two
\* frames and it carries the second picture's width and height; and every
\* frame is emitted with the geometry of the latest request.
C10_OneRenegotiationPerGeometryChange ==
  /\ \A i \in 1..(Len(emitted) - 1) :
       (emitted[i + 1] = emitted[i] + 1
          /\ produced[emitted[i]] # produced[emitted[i + 1]])
       => LET R == { j \in 1..Len(requests) : requests[j].at = i }
          IN /\ Cardinality(R) = 1
             /\ \A j \in R : << requests[j].w, requests[j].h >> = produced[emitted[i + 1]]
  /\ (last.op = "parse" /\ Has(last.ev, "finish"))
       => out_state = produced[emitted[Len(emitted)]]

C10_Witness ==
  /\ Len(emitted) >= 2
  /\ emitted[2] = emitted[1] + 1
  /\ produced[emitted[1]] # produced[emitted[2]]
  /\ Len(requests) = 2

\* C11: when downstream rejects a renegotiation, the parse call returns an
\* error, the frame with the new geometry is not emitted and the new geometry
\* is not recorded in dec->width / dec->height.
C11_RejectedRenegotiationIsFatal ==
  (last.op = "parse" /\ Has(last.ev, "negotiate_failed")) =>
    /\ ~Has(last.ev, "finish")
    /\ last.ret \notin { GST_FLOW_OK, GST_VIDEO_DECODER_FLOW_NEED_DATA }
    /\ << width, height >> # << requests[Len(requests)].w, requests[Len(requests)].h >>

\* What the code does with a rejected renegotiation: it records the new
\* geometry and goes on to have_frame as after an accepted one.
C11_RejectedRenegotiationIsIgnored ==
  (last.op = "parse" /\ Has(last.ev, "negotiate_failed")) =>
    /\ << width, height >> = << requests[Len(requests)].w, requests[Len(requests)].h >>
    /\ First(last.ev, "have_frame") = First(last.ev, "negotiate_failed") + 1

\* every variable but the record of the latest call
state == << ctx, width, height, buffer_full, mode, adapter, queue, warnings,
            produced, emitted, requests, outFail, errSeen, out_state, eos, bl,
            crashed, image, output_buffer, threads >>

\* C12: flush on a started decoder leaves the engine's picture queue empty and
\* the backlog flag cleared and emits no frame; a second flush right after it
\* pulls once, finds nothing and changes nothing.
C12_FlushEmptiesAndIsIdempotent ==
  [][ (last'.op = "flush" /\ ctx # NULL) =>
        /\ queue' = << >>
        /\ buffer_full' = 0
        /\ Count(last'.ev, "pull") = Len(queue) + 1
        /\ ~Has(last'.ev, "have_frame") /\ ~Has(last'.ev, "finish")
        /\ emitted' = << >>
        /\ last'.ret = "TRUE"
        /\ last.op = "flush" => (last'.ev = << "pull", "clear" >> /\ UNCHANGED state) ]_vars

C12_Witness ==
  /\ last.op = "flush"
  /\ Count(last.ev, "pull") = 3
  /\ queue = << >>
  /\ buffer_full = 0
  /\ ctx # NULL

\* whether data, from offset pos on, is exactly a sequence of records: a
\* 4-byte big-endian unsigned length L, then L payload bytes
RECURSIVE Tiles(_, _)
Tiles(data, pos) ==
  \/ pos = Len(data)
  \/ /\ pos + 4 <= Len(data)
     /\ data[pos + 1] < 128
     /\ READ_BE32(data, pos) <= Len(data) - pos - 4
     /\ Tiles(data, pos + 4 + READ_BE32(data, pos))

\* the offsets of the length fields of a buffer that tiles
RECURSIVE LengthFields(_, _)
LengthFields(data, pos) ==
  IF pos = Len(data) THEN { }
  ELSE { pos } \cup LengthFields(data, pos + 4 + READ_BE32(data, pos))

\* C13: in packetized mode a buffer that tiles exactly into records is pushed
\* with its length unchanged, every length field replaced by 00 00 00 01 and
\* every payload byte unchanged, and one start code is written per record; in
\* raw mode the bytes pushed are the bytes of the chunk.
C13_ReframingKeepsSizeAndPayload ==
  last.op = "reframer" =>
    /\ (mode = GST_TYPE_LIBDE265_DEC_PACKETIZED /\ Tiles(last.took, 0)) =>
         LET F == LengthFields(last.took, 0)
         IN /\ Has(last.ev, "push")
            /\ Len(last.fed) = Len(last.took)
            /\ \A i \in 1..Len(last.took) :
                 last.fed[i] = IF \E o \in F : i \in (o + 1)..(o + 3) THEN 0
                               ELSE IF \E o \in F : i = o + 4 THEN 1
                               ELSE last.took[i]
            /\ Count(last.ev, "start_code") = Cardinality(F)
    /\ mode = GST_TYPE_LIBDE265_DEC_RAW =>
         /\ Has(last.ev, "push")
         /\ last.fed = last.took
         /\ ~Has(last.ev, "start_code")

C13_Witness ==
  /\ last.op = "reframer"
  /\ mode = GST_TYPE_LIBDE265_DEC_PACKETIZED
  /\ Tiles(last.took, 0)
  /\ Count(last.ev, "start_code") = 2
  /\ Len(last.took) = 11
  /\ last.took # last.fed

\* C14: in packetized mode every buffer pushed to the engine tiles exactly
\* into records, with no leftover bytes after the last record.
C14_PushedBufferTilesExactly ==
  (last.op = "reframer" /\ mode = GST_TYPE_LIBDE265_DEC_PACKETIZED
     /\ Has(last.ev, "push"))
    => Tiles(last.took, 0)

\* the tightly packed planar 4:2:0 frame of a picture: the rows of each plane
\* without their padding, luma first
PackedI420(img) ==
  Concat([plane \in 1..3 |->
            Concat([y \in 1..PlaneHeight(img.h, plane) |->
                      SubSeq(img.planes[plane], (y - 1) * img.stride[plane] + 1,
                             (y - 1) * img.stride[plane] + PlaneWidth(img.w, plane))])])

\* C15: whatever the strides of the picture, the output buffer of a finished
\* frame is byte for byte the tightly packed planar 4:2:0 frame.
C15_OutputIsPackedI420 ==
  (last.op = "handle_frame" /\ Has(last.ev, "finish"))
    => output_buffer = PackedI420(image)

\* What the copy does yield: the three planes as they lie in the engine's
\* memory, padding included; that is the packed frame when every stride
\* equals the width of its plane.
C15_OutputIsPlanesWithPadding ==
  (last.op = "handle_frame" /\ Has(last.ev, "finish")) =>
    /\ output_buffer = image.planes[1] \o image.planes[2] \o image.planes[3]
    /\ (\A plane \in 1..3 : image.stride[plane] = PlaneWidth(image.w, plane))
         => output_buffer = PackedI420(image)

\* C16: for every emitted picture the three plane copies come after the peek
\* and are complete before the pull that removes the picture from the engine.
C16_CopyBeforePull ==
  (last.op = "parse" /\ Has(last.ev, "finish")) =>
    /\ Last(last.ev, "peek") < First(last.ev, "copy")
    /\ Last(last.ev, "copy") < First(last.ev, "pull")

\* The order the code follows for every emitted picture: peek in parse, then
\* in handle_frame the pull, the allocation and mapping of the output buffer,
\* the three copies and finish_frame.
C16_PullBeforeCopy ==
  (last.op = "parse" /\ Has(last.ev, "finish")) =>
    /\ Count(last.ev, "pull") = 1
    /\ Count(last.ev, "copy") = 3
    /\ Last(last.ev, "peek") < First(last.ev, "pull")
    /\ First(last.ev, "pull") < First(last.ev, "alloc")
    /\ First(last.ev, "alloc") < First(last.ev, "copy")
    /\ Last(last.ev, "copy") < First(last.ev, "finish")

\* C17: stop, after any calls, frees the context if there is one and leaves
\* no context, the backlog flag cleared and the geometry unset; a second stop
\* changes nothing.  A context leaves dec->ctx only in start and stop, and the
\* step in which it does frees it exactly once (start before it creates the
\* next one); no step frees when there is no context.
C17_StopFreesOnceAndIsIdempotent ==
  [][ /\ last'.op = "stop" =>
           /\ ctx' = NULL
           /\ buffer_full' = 0
           /\ width' = -1 /\ height' = -1
           /\ queue' = << >>
           /\ last'.ret = "TRUE"
           /\ ~crashed'
           /\ last.op = "stop" => (last'.ev = << >> /\ UNCHANGED state)
      /\ last'.op \in { "start", "stop" } =>
           /\ Count(last'.ev, "free") = (IF ctx # NULL THEN 1 ELSE 0)
           /\ Has(last'.ev, "new") => First(last'.ev, "free") < First(last'.ev, "new")
      /\ last'.op \notin { "start", "stop" } =>
           /\ ~Has(last'.ev, "free")
           /\ ctx' = ctx ]_vars

C17_Witness ==
  /\ last.op = "stop"
  /\ last.ev = << "free" >>
  /\ ctx = NULL
  /\ buffer_full = 0
  /\ width = -1

\* C18: a parse call with no byte in the adapter never takes a buffer, pushes
\* data or calls decode.  With the backlog flag set it peeks: a pending
\* picture is handed to have_frame (one picture, the flag stays set), and
\* with none pending the flag is cleared and the call returns need-data; with
\* the flag clear it returns need-data and changes nothing.
C18_EmptyParseNeverFeeds ==
  [][ (last'.op = "parse" /\ adapter = << >>) =>
        /\ NoFeed(last'.ev)
        /\ last'.fed = << >> /\ last'.feed = ""
        /\ adapter' = << >>
        /\ produced' = produced /\ warnings' = warnings
        /\ IF buffer_full = 1
           THEN IF queue # << >>
                THEN /\ last'.ev[1] = "peek"
                     /\ Count(last'.ev, "have_frame") = 1
                     /\ queue' = Tail(queue)
                     /\ Len(emitted') <= Len(emitted) + 1
                     /\ buffer_full' = 1
                ELSE /\ last'.ev = << "peek", "clear" >>
                     /\ buffer_full' = 0
                     /\ last'.ret = GST_VIDEO_DECODER_FLOW_NEED_DATA
                     /\ queue' = queue /\ emitted' = emitted
           ELSE /\ last'.ev = << >>
                /\ last'.ret = GST_VIDEO_DECODER_FLOW_NEED_DATA
                /\ UNCHANGED << ctx, width, height, buffer_full, mode, queue,
                                emitted, requests, out_state, crashed >> ]_vars

C18_Witness ==
  /\ last.op = "parse"
  /\ last.ev = << "peek", "clear" >>
  /\ last.took = << >>
  /\ last.ret = GST_VIDEO_DECODER_FLOW_NEED_DATA
  /\ buffer_full = 0

\* the step records the geometry of the picture it peeked: the picture differs
\* from what was recorded, it is the one handle_frame then pulled, and the
\* step asked for renegotiation with its width and height
RecordsPeekedPicture ==
  /\ last'.op = "parse"
  /\ Has(last'.ev, "set_output_state")
  /\ First(last'.ev, "set_output_state") < First(last'.ev, "have_frame")
  /\ << width', height' >> = produced'[Len(produced') - Len(queue')]
  /\ << width', height' >> # << width, height >>
  /\ out_state' = << width', height' >>
  /\ Len(requests') = Len(requests) + 1
  /\ << requests'[Len(requests')].w, requests'[Len(requests')].h >> = << width', height' >>

\* C19 as stated: once set, the recorded geometry changes only in a step that
\* observes a decoded picture whose width or height differs from it; no flush,
\* feed result without a picture, error, stop or start changes it.
C19_GeometryChangesOnlyOnPicture ==
  [][ (width # -1 /\ << width', height' >> # << width, height >>)
        => RecordsPeekedPicture ]_vars

\* C19, amended: the recorded geometry changes only in a parse step that
\* observes a decoded picture whose width or height differs from it, and in
\* start and stop, which reset it to unset (-1, -1); no flush, feed result
\* without a picture or error changes it.
C19_GeometryChangesOnPictureOrReset ==
  [][ << width', height' >> # << width, height >> =>
        \/ RecordsPeekedPicture
        \/ /\ last'.op \in { "start", "stop" }
           /\ width' = -1 /\ height' = -1 ]_vars

C19_Witness ==
  /\ last.op = "parse"
  /\ Has(last.ev, "set_output_state")
  /\ Len(requests) = 2
  /\ << width, height >> = << requests[2].w, requests[2].h >>
  /\ << width, height >> # << requests[1].w, requests[1].h >>

\* C20: start creates one context and starts its worker threads once, with
\* the host's reported parallelism when that is positive and 2 otherwise, so
\* with at least one thread; no other handler starts threads or changes the
\* count; when the creation fails start returns FALSE, starts no thread and
\* leaves no context.
C20_StartStartsThreadsOnce ==
  [][ /\ last'.op = "start" =>
           /\ Count(last'.ev, "new") = 1
           /\ IF ctx' # NULL
              THEN /\ Count(last'.ev, "start_worker_threads") = 1
                   /\ First(last'.ev, "new") < First(last'.ev, "start_worker_threads")
                   /\ threads' = (IF last'.took[1] > 0 THEN last'.took[1] ELSE 2)
                   /\ threads' >= 1
                   /\ last'.ret = "TRUE"
              ELSE /\ ~Has(last'.ev, "start_worker_threads")
                   /\ threads' = 0
                   /\ last'.ret = "FALSE"
      /\ last'.op \notin { "start", "stop" } =>
           /\ ~Has(last'.ev, "start_worker_threads")
           /\ threads' = threads
      /\ (ctx' # NULL) <=> (threads' > 0) ]_vars

C20_Witness ==
  /\ last.op = "start"
  /\ last.took = << -1 >>
  /\ threads = 2
  /\ ctx # NULL
  /\ Has(last.ev, "free")

\* the values the cursor start_data takes in the loop of the packetized
\* branch, as offsets from frame_data, up to the first one that ends the loop
\* or that the C arithmetic leaves undefined (4 + nal_size not an int: the
\* trace stops at the cursor of that record)
RECURSIVE Cursors(_, _)
Cursors(data, pos) ==
  IF pos < 0 \/ pos + 4 > Len(data) THEN << pos >>
  ELSE IF READ_BE32(data, pos) > 2147483647 - 4 THEN << pos >>
  ELSE << pos >> \o Cursors(WRITE_BE32(data, pos, 1), pos + 4 + READ_BE32(data, pos))

\* C21: in packetized mode, whatever the length fields hold, the cursor never
\* moves backwards or before the start of the buffer, every 4-byte read and
\* write lies inside the buffer and the arithmetic is defined, and a buffer
\* whose records overrun its end fails with the overflow error.
C21_CursorStaysInBuffer ==
  (last.op = "reframer" /\ mode = GST_TYPE_LIBDE265_DEC_PACKETIZED) =>
    LET c == Cursors(last.took, 0)
    IN /\ Reframe(last.took).st # "ub"
       /\ \A i \in 1..Len(c) : c[i] >= 0
       /\ \A i \in 1..(Len(c) - 1) : c[i] <= c[i + 1]
       /\ RecordsOverrun(last.took, 0) => last.err = "overflow"

\* what holds of the loop: while no byte of the buffer reaches 127, so that
\* every length read is below 2^31 - 4, the cursor only moves forwards, by 4
\* bytes at least, and an overrun fails with the overflow error
C21_CursorAdvancesOnSmallLengths ==
  (last.op = "reframer" /\ mode = GST_TYPE_LIBDE265_DEC_PACKETIZED
     /\ \A b \in 1..Len(last.took) : last.took[b] < 127) =>
    LET c == Cursors(last.took, 0)
    IN /\ Reframe(last.took).st # "ub"
       /\ \A i \in 1..(Len(c) - 1) : c[i] + 4 <= c[i + 1]
       /\ RecordsOverrun(last.took, 0) => last.err = "overflow"

\* the events of a parse call that concern the chunk buffer: those before
\* have_frame, where handle_frame maps and unmaps the output buffer
ChunkEvents(ev) ==
  IF Has(ev, "have_frame") THEN SubSeq(ev, 1, First(ev, "have_frame") - 1) ELSE ev

\* C22: every parse call that takes a buffer from the adapter and returns has
\* released it exactly once, after unmapping it exactly once if it was mapped.
C22_TakenBufferReleasedOnce ==
  (last.op = "parse" /\ Has(last.ev, "take") /\ last.ret # NO_RETURN) =>
    LET ev == ChunkEvents(last.ev)
    IN /\ Count(ev, "unref") = 1
       /\ First(ev, "take") < First(ev, "unref")
       /\ Has(ev, "map") =>
            /\ Count(ev, "unmap") = 1
            /\ First(ev, "map") < First(ev, "unmap")
            /\ First(ev, "unmap") < First(ev, "unref")

\* what holds: the buffer is unmapped and released once, in this order, by the
\* calls that reach de265_push_data, and by no other call
C22_ReleasedOnlyAfterPush ==
  (last.op = "parse" /\ last.ret # NO_RETURN) =>
    LET ev == ChunkEvents(last.ev)
        pushed == Has(ev, "push") \/ Has(ev, "push_null_ctx")
    IN /\ Count(ev, "unmap") = (IF pushed THEN 1 ELSE 0)
       /\ Count(ev, "unref") = (IF pushed THEN 1 ELSE 0)
       /\ pushed => /\ First(ev, "map") < First(ev, "unmap")
                    /\ First(ev, "unmap") < First(ev, "unref")

\* C23: the bytes handle_frame writes to the output buffer, the sum over the
\* three planes of height x stride, never exceed the size of the buffer
\* allocated for the negotiated I420 geometry.
C23_CopyFitsOutputBuffer ==
  (last.op = "handle_frame" /\ Has(last.ev, "copy")) =>
    Len(output_buffer) <= OutputSize(out_state[1], out_state[2])

\* what holds: the copy fits when no plane has a stride above the stride of
\* the output buffer's plane
C23_CopyFitsWhenStridesFit ==
  (last.op = "handle_frame" /\ Has(last.ev, "copy")
     /\ image.stride[1] <= RoundUp(image.w, 4)
     /\ \A plane \in 2..3 :
          image.stride[plane] <= RoundUp(RoundUp(image.w, 2) \div 2, 4)) =>
    /\ Len(output_buffer) <= OutputSize(out_state[1], out_state[2])
    /\ last.ret # NO_RETURN

\* the events that are calls into the engine
EngineOps ==
  { "push", "push_null_ctx", "decode", "peek", "peek_null_ctx", "pull",
    "pull_null_ctx", "warn" }

\* C24: a flush or parse call made while there is no decoder context (before
\* start, after stop, after a failed start) invokes no engine operation.
C24_NoEngineCallWithoutContext ==
  (last.op \in { "flush", "parse" } /\ ctx = NULL) =>
    \A i \in 1..Len(last.ev) : last.ev[i] \notin EngineOps

\* what holds: with a context every engine operation is given that context,
\* and without one a parse call with an empty adapter and a clear backlog flag
\* returns before it reaches the engine
C24_EngineCallsGivenLiveContext ==
  [][ /\ (last'.op \in { "flush", "parse" } /\ last' # last /\ ctx # NULL) =>
          \A i \in 1..Len(last'.ev) :
            last'.ev[i] \notin { "push_null_ctx", "peek_null_ctx", "pull_null_ctx" }
      /\ (last'.op = "parse" /\ last' # last /\ ctx = NULL
            /\ adapter = << >> /\ buffer_full = 0) =>
          last'.ev = << >>
    ]_vars

====
